---- MODULE Spec2Model ----
(***************************************************************************)
(* Model of Isra.py: IsraelCommuneFinanceAnalyzer (profile lookup, the     *)
(* per-metric generators, the historical overlay _add_israeli_trends) and  *)
(* main (menu selection, generation, export, reporting).                   *)
(*                                                                         *)
(* Every amount of the program is a product of decimal literals, so a      *)
(* number is kept exactly, as the map from its prime factors to their      *)
(* (possibly negative) exponents: 45600 = 2^4 * 3 * 5^2 * 19 is            *)
(* (2 :> 4 @@ 3 :> 1 @@ 5 :> 2 @@ 19 :> 1), 0.95 is                        *)
(* (2 :> -2 @@ 5 :> -1 @@ 19 :> 1).  Two numbers are equal exactly when    *)
(* their maps are equal.  Rounding of binary floating point is not         *)
(* modelled.                                                               *)
(***************************************************************************)
EXTENDS Integers, Sequences, FiniteSets, TLC

VARIABLES pc, mode, choix, selection, fallback, commune, config, start_year,
          end_year, noise, raw, df, overlays, prev_noise, prev_df, csv

vars == <<pc, mode, choix, selection, fallback, commune, config, start_year,
          end_year, noise, raw, df, overlays, prev_noise, prev_df, csv>>

---------------------------------------------------------------------------
(* Exact positive rationals in factored form.                              *)

One == [p \in {} |-> 0]

QMul(a, b) ==
    LET D == DOMAIN a \cup DOMAIN b
        s(p) == (IF p \in DOMAIN a THEN a[p] ELSE 0)
                + (IF p \in DOMAIN b THEN b[p] ELSE 0)
    IN  [p \in {q \in D : s(q) # 0} |-> s(p)]

QInv(a) == [p \in DOMAIN a |-> 0 - a[p]]

RECURSIVE PF(_, _)
PF(n, p) ==
    IF n = 1 THEN One
    ELSE IF p * p > n THEN [q \in {n} |-> 1]
    ELSE IF n % p = 0 THEN QMul([q \in {p} |-> 1], PF(n \div p, p))
    ELSE PF(n, p + 1)

\* the rational n / d, for integers n > 0 and d > 0
Q(n, d) == QMul(PF(n, 2), QInv(PF(d, 2)))

\* the factorisations of the numerators of the growth factors, computed once
Factored == [n \in 1..(1000 + 45 * 24) |-> PF(n, 2)]
Thousandth == QInv(PF(1000, 2))

\* the decimal literals of the source
d0_6 == Q(6, 10)
d0_65 == Q(65, 100)
d0_7 == Q(7, 10)
d0_78 == Q(78, 100)
d0_8 == Q(8, 10)
d0_85 == Q(85, 100)
d0_88 == Q(88, 100)
d0_9 == Q(9, 10)
d0_92 == Q(92, 100)
d0_95 == Q(95, 100)
d1_05 == Q(105, 100)
d1_08 == Q(108, 100)
d1_15 == Q(115, 100)
d1_2 == Q(12, 10)
d1_25 == Q(125, 100)
d1_4 == Q(14, 10)
d1_5 == Q(15, 10)
d1_6 == Q(16, 10)
d1_7 == Q(17, 10)
d1_8 == Q(18, 10)
d1_9 == Q(19, 10)
d2_2 == Q(22, 10)
d2_5 == Q(25, 10)
d2_0 == Q(2, 1)

RECURSIVE QProd(_)
QProd(s) == IF s = <<>> THEN One ELSE QMul(Head(s), QProd(Tail(s)))

RECURSIVE QPow(_, _)
QPow(a, k) == IF k = 0 THEN One ELSE QMul(a, QPow(a, k - 1))

RECURSIVE IntPow(_, _)
IntPow(b, k) == IF k = 0 THEN 1 ELSE b * IntPow(b, k - 1)

RECURSIVE PartProd(_, _, _)
PartProd(a, S, pos) ==
    IF S = {} THEN 1
    ELSE LET p == CHOOSE q \in S : TRUE
             e == IF pos THEN a[p] ELSE 0 - a[p]
         IN  IntPow(p, e) * PartProd(a, S \ {p}, pos)

\* numerator and denominator of a (small) number, for order comparisons
Num(a) == PartProd(a, {p \in DOMAIN a : a[p] > 0}, TRUE)
Den(a) == PartProd(a, {p \in DOMAIN a : a[p] < 0}, FALSE)
QLess(a, b) == Num(a) * Den(b) < Num(b) * Den(a)

---------------------------------------------------------------------------
(* __init__ and _get_commune_config                                        *)

DefaultStartYear == 2002
DefaultEndYear == 2025
eur_to_ils == Q(4, 1)

configs ==
       "Jérusalem" :> [population_base |-> 950000, budget_base |-> 8500,
                       type |-> "capitale",
                       specialites |-> {"tourisme", "administration", "education", "culture", "religion"}]
      @@ "Tel Aviv-Jaffa" :> [population_base |-> 460000, budget_base |-> 12000,
                       type |-> "metropolitaine",
                       specialites |-> {"finance", "technologie", "commerce", "tourisme", "culture"}]
      @@ "Haïfa" :> [population_base |-> 285000, budget_base |-> 4800,
                       type |-> "portuaire",
                       specialites |-> {"port", "industrie", "technologie", "education", "tourisme"}]
      @@ "Beer-Sheva" :> [population_base |-> 220000, budget_base |-> 3200,
                       type |-> "regionale",
                       specialites |-> {"desert", "technologie", "sante", "education", "cybersecurite"}]
      @@ "Netanya" :> [population_base |-> 220000, budget_base |-> 2800,
                       type |-> "cotiere",
                       specialites |-> {"tourisme", "immobilier", "commerce", "diamants"}]
      @@ "Ashdod" :> [population_base |-> 225000, budget_base |-> 3500,
                       type |-> "portuaire",
                       specialites |-> {"port", "industrie", "commerce", "logistique"}]
      @@ "Rishon LeZion" :> [population_base |-> 255000, budget_base |-> 3800,
                       type |-> "banlieue",
                       specialites |-> {"vin", "commerce", "education", "services"}]
      @@ "Petah Tikva" :> [population_base |-> 250000, budget_base |-> 3600,
                       type |-> "industrielle",
                       specialites |-> {"industrie", "sante", "technologie", "agriculture"}]
      @@ "Eilat" :> [population_base |-> 52000, budget_base |-> 1800,
                       type |-> "touristique",
                       specialites |-> {"tourisme", "plongee", "commerce_libre", "loisirs"}]
      @@ "Tiberiade" :> [population_base |-> 44000, budget_base |-> 850,
                       type |-> "touristique",
                       specialites |-> {"lac", "tourisme_religieux", "thermal", "histoire"}]
      @@ "Nahariya" :> [population_base |-> 58000, budget_base |-> 950,
                       type |-> "cotiere",
                       specialites |-> {"tourisme", "agriculture", "commerce_frontalier"}]
      @@ "Safed" :> [population_base |-> 37000, budget_base |-> 680,
                       type |-> "religieuse",
                       specialites |-> {"kabbalah", "art", "tourisme_religieux", "histoire"}]
      @@ "default" :> [population_base |-> 50000, budget_base |-> 800,
                       type |-> "locale",
                       specialites |-> {"commerce_local", "services", "education", "sante"}]

\* variant: an unknown name falls back to the menu's default entity
\* variant: the Tel Aviv suburbs share the Tel Aviv profile
get_commune_config_suburbs(name) ==
    IF name \in DOMAIN configs THEN configs[name]
    ELSE IF name \in {"Bat Yam", "Holon"} THEN configs["Tel Aviv-Jaffa"]
    ELSE configs["default"]

get_commune_config_menu_default(name) ==
    IF name \in DOMAIN configs THEN configs[name] ELSE configs["Tel Aviv-Jaffa"]

\* configs.get(self.commune, configs["default"])
get_commune_config(name) ==
    IF name \in DOMAIN configs THEN configs[name] ELSE configs["default"]

convert_to_shekels(amount_eur) == QMul(amount_eur, eur_to_ils)

---------------------------------------------------------------------------
(* generate_financial_data: the year axis and the per-metric generators.   *)
(* dates is the sequence of the years of the year-end dates; nz is the     *)
(* sequence of the draws of np.random.normal for one metric, one per row.  *)

\* variant: the end bound taken at the start of the last year
date_range_open(s, e) == IF e > s THEN [k \in 1..(e - s) |-> s + k - 1] ELSE <<>>

\* pd.date_range(start='<s>-01-01', end='<e>-12-31', freq='Y'): the year
\* ends lying between the two dates, empty when there is none
date_range(s, e) == IF e >= s THEN [k \in 1..(e - s + 1) |-> s + k - 1] ELSE <<>>

\* variant: the offset counted from 1 (enumerate(dates, 1))
Linear_one_based(rate, n) ==
    LET m == 1000 + rate * (n + 1)
    IN  QMul(PF(m, 2), Thousandth)

\* 1 + rate * n, the rate given in thousandths
Linear(rate, n) ==
    LET m == 1000 + rate * n
    IN  QMul(IF m \in DOMAIN Factored THEN Factored[m] ELSE PF(m, 2), Thousandth)

\* budget_base * (pct / 100)
Share(cfg, pct) == Q(cfg.budget_base * pct, 100)

\* variant: the average rate for every type
population_growth_rate_flat(cfg) == 20

population_growth_rate(cfg) ==
    IF cfg.type = "capitale" THEN 18
    ELSE IF cfg.type = "metropolitaine" THEN 22
    ELSE IF cfg.type = "touristique" THEN 25
    ELSE 20

simulate_population(cfg, dates) ==
    LET base_population == Q(cfg.population_base, 1)
    IN  [k \in 1..Len(dates) |->
            QMul(base_population, Linear(population_growth_rate(cfg), k - 1))]

simulate_households(cfg, dates) ==
    LET base_households == Q(cfg.population_base, 3)
    IN  [k \in 1..Len(dates) |-> QMul(base_households, Linear(18, k - 1))]

\* variant: the technology rate selected by the specialty tag
revenue_growth_rate_by_tag(cfg) ==
    IF cfg.type = "metropolitaine" THEN 38
    ELSE IF "technologie" \in cfg.specialites THEN 42
    ELSE 35

\* variant: one rate for every type
revenue_growth_rate_flat(cfg) == 35

revenue_growth_rate(cfg) ==
    IF cfg.type = "metropolitaine" THEN 38
    ELSE IF cfg.type = "technologie" THEN 42
    ELSE 35

simulate_total_revenue(cfg, dates, nz) ==
    LET base == convert_to_shekels(Q(cfg.budget_base, 1))
    IN  [k \in 1..Len(dates) |->
            QProd(<<base,
                    Linear(revenue_growth_rate(cfg), k - 1), nz[k]>>)]

simulate_tax_revenue(cfg, dates, nz) ==
    LET base == convert_to_shekels(Share(cfg, 40))
    IN  [k \in 1..Len(dates) |->
            QProd(<<base, Linear(32, k - 1), nz[k]>>)]

\* increase = 1 + 0.008 * (year - 2010) from 2010 on, 1 before
grants_increase(year) == IF year >= 2010 THEN Linear(8, year - 2010) ELSE One

simulate_government_grants(cfg, dates, nz) ==
    LET base == convert_to_shekels(Share(cfg, 35))
    IN  [k \in 1..Len(dates) |->
            QProd(<<base, grants_increase(dates[k]), nz[k]>>)]

simulate_other_revenue(cfg, dates, nz) ==
    LET base == convert_to_shekels(Share(cfg, 25))
    IN  [k \in 1..Len(dates) |->
            QProd(<<base, Linear(28, k - 1), nz[k]>>)]

simulate_total_expenses(cfg, dates, nz) ==
    LET base == convert_to_shekels(Share(cfg, 96))
    IN  [k \in 1..Len(dates) |->
            QProd(<<base, Linear(34, k - 1), nz[k]>>)]

simulate_operating_expenses(cfg, dates, nz) ==
    LET base == convert_to_shekels(Share(cfg, 60))
    IN  [k \in 1..Len(dates) |->
            QProd(<<base, Linear(30, k - 1), nz[k]>>)]

\* variant: the plan years taken as a six-year cycle
investment_year_multiplier_cyclic(year) ==
    IF (year - 2006) % 6 = 0 THEN d1_6
    ELSE IF (year - 2008) % 6 = 0 THEN d0_8
    ELSE One

investment_year_multiplier(year) ==
    IF year \in {2006, 2012, 2018, 2023} THEN d1_6
    ELSE IF year \in {2008, 2014, 2020} THEN d0_8
    ELSE One

simulate_investment_expenses(cfg, dates, nz) ==
    LET base == convert_to_shekels(Share(cfg, 36))
    IN  [k \in 1..Len(dates) |->
            QProd(<<base, Linear(28, k - 1),
                    investment_year_multiplier(dates[k]), nz[k]>>)]

debt_charges_increase(year) == IF year >= 2005 THEN Linear(8, year - 2005) ELSE One

simulate_debt_charges(cfg, dates, nz) ==
    LET base == convert_to_shekels(Share(cfg, 6))
    IN  [k \in 1..Len(dates) |->
            QProd(<<base, debt_charges_increase(dates[k]), nz[k]>>)]

simulate_staff_costs(cfg, dates, nz) ==
    LET base == convert_to_shekels(Share(cfg, 42))
    IN  [k \in 1..Len(dates) |->
            QProd(<<base, Linear(31, k - 1), nz[k]>>)]

savings_improvement(year) == IF year >= 2010 THEN Linear(10, year - 2010) ELSE One

simulate_gross_savings(cfg, dates, nz) ==
    LET base == convert_to_shekels(Share(cfg, 4))
    IN  [k \in 1..Len(dates) |->
            QProd(<<base, savings_improvement(dates[k]), nz[k]>>)]

debt_change(year) ==
    IF year \in {2006, 2012, 2018, 2023} THEN Q(120, 100)
    ELSE IF year \in {2008, 2014, 2020} THEN d0_88
    ELSE One

simulate_total_debt(cfg, dates, nz) ==
    LET base == convert_to_shekels(Share(cfg, 75))
    IN  [k \in 1..Len(dates) |->
            QProd(<<base, debt_change(dates[k]), nz[k]>>)]

\* improvement = 1 - 0.012 * (year - 2010) from 2010 on, 1 before
debt_ratio_improvement(year) == IF year >= 2010 THEN Linear(0 - 12, year - 2010) ELSE One

simulate_debt_ratio(cfg, dates, nz) ==
    [k \in 1..Len(dates) |->
        QProd(<<d0_65, debt_ratio_improvement(dates[k]), nz[k]>>)]

tax_rate_increase(year) == IF year >= 2010 THEN Linear(6, year - 2010) ELSE One

simulate_tax_rate(cfg, dates, nz) ==
    [k \in 1..Len(dates) |->
        QProd(<<d0_92, tax_rate_increase(dates[k]), nz[k]>>)]

\* variant: the two branches exchanged
technology_multiplier_swapped(cfg) ==
    IF "technologie" \in cfg.specialites THEN d0_7 ELSE d1_8

technology_multiplier(cfg) ==
    IF "technologie" \in cfg.specialites THEN d1_8 ELSE d0_7

technology_year_multiplier(year) ==
    IF year \in {2005, 2010, 2015, 2020} THEN d2_2 ELSE One

simulate_technology_investment(cfg, dates, nz) ==
    LET base == convert_to_shekels(Share(cfg, 8))
    IN  [k \in 1..Len(dates) |->
            QProd(<<base, Linear(45, k - 1),
                    technology_year_multiplier(dates[k]), technology_multiplier(cfg), nz[k]>>)]

tourism_multiplier(cfg) ==
    IF "tourisme" \in cfg.specialites THEN d1_7 ELSE d0_8

tourism_year_multiplier(year) ==
    IF year \in {2007, 2013, 2019, 2024} THEN d1_8 ELSE One

simulate_tourism_investment(cfg, dates, nz) ==
    LET base == convert_to_shekels(Share(cfg, 6))
    IN  [k \in 1..Len(dates) |->
            QProd(<<base, Linear(35, k - 1),
                    tourism_year_multiplier(dates[k]), tourism_multiplier(cfg), nz[k]>>)]

transport_multiplier(cfg) ==
    IF "transport" \in cfg.specialites THEN d1_4 ELSE One

transport_year_multiplier(year) ==
    IF year \in {2006, 2012, 2018, 2023} THEN d1_7 ELSE One

simulate_transport_investment(cfg, dates, nz) ==
    LET base == convert_to_shekels(Share(cfg, 5))
    IN  [k \in 1..Len(dates) |->
            QProd(<<base, Linear(32, k - 1),
                    transport_year_multiplier(dates[k]), transport_multiplier(cfg), nz[k]>>)]

education_multiplier(cfg) ==
    IF "education" \in cfg.specialites THEN d1_5 ELSE One

education_year_multiplier(year) ==
    IF year \in {2008, 2014, 2020} THEN d1_6 ELSE One

simulate_education_investment(cfg, dates, nz) ==
    LET base == convert_to_shekels(Share(cfg, 7))
    IN  [k \in 1..Len(dates) |->
            QProd(<<base, Linear(30, k - 1),
                    education_year_multiplier(dates[k]), education_multiplier(cfg), nz[k]>>)]

\* variant: the border tag matched inside "commerce_frontalier" as well
security_multiplier_border(cfg) ==
    IF cfg.specialites \cap {"frontaliere", "commerce_frontalier"} # {}
           \/ cfg.type \in {"capitale", "metropolitaine"}
    THEN d1_6 ELSE One

security_multiplier(cfg) ==
    IF "frontaliere" \in cfg.specialites \/ cfg.type \in {"capitale", "metropolitaine"}
    THEN d1_6 ELSE One

\* variant: the 2014 operations left to the overlay alone
security_year_multiplier_no_2014(year) ==
    IF year \in {2002, 2006, 2009, 2021} THEN d2_0 ELSE One

security_year_multiplier(year) ==
    IF year \in {2002, 2006, 2009, 2014, 2021} THEN d2_0 ELSE One

simulate_security_investment(cfg, dates, nz) ==
    LET base == convert_to_shekels(Share(cfg, 4))
    IN  [k \in 1..Len(dates) |->
            QProd(<<base, Linear(25, k - 1),
                    security_year_multiplier(dates[k]), security_multiplier(cfg), nz[k]>>)]

environment_multiplier(cfg) ==
    IF "environnement" \in cfg.specialites THEN d1_4 ELSE d0_9

environment_year_multiplier(year) ==
    IF year \in {2009, 2015, 2021} THEN d1_8 ELSE One

simulate_environment_investment(cfg, dates, nz) ==
    LET base == convert_to_shekels(Share(cfg, 3))
    IN  [k \in 1..Len(dates) |->
            QProd(<<base, Linear(28, k - 1),
                    environment_year_multiplier(dates[k]), environment_multiplier(cfg), nz[k]>>)]

culture_multiplier(cfg) ==
    IF "culture" \in cfg.specialites THEN d1_7 ELSE d0_8

culture_year_multiplier(year) ==
    IF year \in {2010, 2016, 2022} THEN d1_9 ELSE One

simulate_culture_investment(cfg, dates, nz) ==
    LET base == convert_to_shekels(Share(cfg, 2))
    IN  [k \in 1..Len(dates) |->
            QProd(<<base, Linear(25, k - 1),
                    culture_year_multiplier(dates[k]), culture_multiplier(cfg), nz[k]>>)]

\* the columns that take a np.random.normal draw per row
NoisyColumns ==
    {"Recettes_Totales", "Impots_Locaux", "Subventions_Gouvernement", "Autres_Recettes",
     "Depenses_Totales", "Fonctionnement", "Investissement", "Charge_Dette", "Personnel",
     "Epargne_Brute", "Dette_Totale", "Taux_Endettement", "Taux_Fiscalite",
     "Investissement_Technologie", "Investissement_Tourisme", "Investissement_Transport",
     "Investissement_Education", "Investissement_Securite", "Investissement_Environnement",
     "Investissement_Culture"}

\* the dict data of generate_financial_data: column name -> list of values
build_data(cfg, dates, nz) ==
       "Annee" :> dates
    @@ "Population" :> simulate_population(cfg, dates)
    @@ "Menages" :> simulate_households(cfg, dates)
    @@ "Recettes_Totales" :> simulate_total_revenue(cfg, dates, nz["Recettes_Totales"])
    @@ "Impots_Locaux" :> simulate_tax_revenue(cfg, dates, nz["Impots_Locaux"])
    @@ "Subventions_Gouvernement" :> simulate_government_grants(cfg, dates, nz["Subventions_Gouvernement"])
    @@ "Autres_Recettes" :> simulate_other_revenue(cfg, dates, nz["Autres_Recettes"])
    @@ "Depenses_Totales" :> simulate_total_expenses(cfg, dates, nz["Depenses_Totales"])
    @@ "Fonctionnement" :> simulate_operating_expenses(cfg, dates, nz["Fonctionnement"])
    @@ "Investissement" :> simulate_investment_expenses(cfg, dates, nz["Investissement"])
    @@ "Charge_Dette" :> simulate_debt_charges(cfg, dates, nz["Charge_Dette"])
    @@ "Personnel" :> simulate_staff_costs(cfg, dates, nz["Personnel"])
    @@ "Epargne_Brute" :> simulate_gross_savings(cfg, dates, nz["Epargne_Brute"])
    @@ "Dette_Totale" :> simulate_total_debt(cfg, dates, nz["Dette_Totale"])
    @@ "Taux_Endettement" :> simulate_debt_ratio(cfg, dates, nz["Taux_Endettement"])
    @@ "Taux_Fiscalite" :> simulate_tax_rate(cfg, dates, nz["Taux_Fiscalite"])
    @@ "Investissement_Technologie" :> simulate_technology_investment(cfg, dates, nz["Investissement_Technologie"])
    @@ "Investissement_Tourisme" :> simulate_tourism_investment(cfg, dates, nz["Investissement_Tourisme"])
    @@ "Investissement_Transport" :> simulate_transport_investment(cfg, dates, nz["Investissement_Transport"])
    @@ "Investissement_Education" :> simulate_education_investment(cfg, dates, nz["Investissement_Education"])
    @@ "Investissement_Securite" :> simulate_security_investment(cfg, dates, nz["Investissement_Securite"])
    @@ "Investissement_Environnement" :> simulate_environment_investment(cfg, dates, nz["Investissement_Environnement"])
    @@ "Investissement_Culture" :> simulate_culture_investment(cfg, dates, nz["Investissement_Culture"])

\* variant: local taxes taken as 40% of the generated total revenue
DataFrame_derived(data) ==
    [k \in 1..Len(data["Annee"]) |->
        [c \in DOMAIN data |->
            IF c = "Impots_Locaux" THEN QMul(data["Recettes_Totales"][k], Q(40, 100))
            ELSE data[c][k]]]

\* variant: the last column assigned is lost
DataFrame_short(data) ==
    [k \in 1..Len(data["Annee"]) |->
        [c \in DOMAIN data \ {"Investissement_Culture"} |-> data[c][k]]]

\* pd.DataFrame(data): one row per position of the lists, one cell per key
DataFrame(data) ==
    [k \in 1..Len(data["Annee"]) |-> [c \in DOMAIN data |-> data[c][k]]]


---------------------------------------------------------------------------
(* _add_israeli_trends: one pass over the rows, df.loc[i, col] *= factor.  *)

Scale(row, col, f) == [row EXCEPT ![col] = QMul(@, f)]

\* if 2002 <= year <= 2005
intifada(row) ==
    IF 2002 <= row["Annee"] /\ row["Annee"] <= 2005
    THEN Scale(Scale(row, "Investissement_Tourisme", d0_7), "Recettes_Totales", d0_95)
    ELSE row

\* variant: the upper bound of the window excluded
tech_boom_open(row) ==
    IF 2006 <= row["Annee"] /\ row["Annee"] < 2008
    THEN Scale(Scale(row, "Investissement_Technologie", d1_6), "Recettes_Totales", d1_08)
    ELSE row

\* if 2006 <= year <= 2008
tech_boom(row) ==
    IF 2006 <= row["Annee"] /\ row["Annee"] <= 2008
    THEN Scale(Scale(row, "Investissement_Technologie", d1_6), "Recettes_Totales", d1_08)
    ELSE row

\* variant: the 2008-2009 block chained as elif to the 2006-2008 block
crisis_or_growth_chained(row) ==
    IF 2006 <= row["Annee"] /\ row["Annee"] <= 2008
    THEN row
    ELSE IF 2008 <= row["Annee"] /\ row["Annee"] <= 2009
    THEN Scale(Scale(row, "Recettes_Totales", d0_92), "Investissement", d0_78)
    ELSE IF 2010 <= row["Annee"] /\ row["Annee"] <= 2019
    THEN Scale(Scale(row, "Investissement_Technologie", d1_2), "Subventions_Gouvernement", d1_05)
    ELSE row

\* if 2008 <= year <= 2009 ... elif 2010 <= year <= 2019
crisis_or_growth(row) ==
    IF 2008 <= row["Annee"] /\ row["Annee"] <= 2009
    THEN Scale(Scale(row, "Recettes_Totales", d0_92), "Investissement", d0_78)
    ELSE IF 2010 <= row["Annee"] /\ row["Annee"] <= 2019
    THEN Scale(Scale(row, "Investissement_Technologie", d1_2), "Subventions_Gouvernement", d1_05)
    ELSE row

\* variant: the 2014 block also rescales Fonctionnement
military_2014_wide(row) ==
    IF row["Annee"] = 2014
    THEN Scale(Scale(Scale(row, "Investissement_Securite", d2_5), "Depenses_Totales", d1_08),
               "Fonctionnement", d1_08)
    ELSE row

\* if year == 2014
military_2014(row) ==
    IF row["Annee"] = 2014
    THEN Scale(Scale(row, "Investissement_Securite", d2_5), "Depenses_Totales", d1_08)
    ELSE row

\* variant: the window without its split by year
covid_unsplit(row) ==
    IF 2020 <= row["Annee"] /\ row["Annee"] <= 2021
    THEN Scale(Scale(Scale(row, "Recettes_Totales", d0_85), "Investissement_Tourisme", d0_6),
               "Subventions_Gouvernement", d1_15)
    ELSE row

\* if 2020 <= year <= 2021: if year == 2020 ... else
covid(row) ==
    IF 2020 <= row["Annee"] /\ row["Annee"] <= 2021
    THEN IF row["Annee"] = 2020
         THEN Scale(Scale(row, "Recettes_Totales", d0_85), "Investissement_Tourisme", d0_6)
         ELSE Scale(row, "Subventions_Gouvernement", d1_15)
    ELSE row

\* if year >= 2022
relance(row) ==
    IF row["Annee"] >= 2022
    THEN Scale(Scale(Scale(row, "Investissement_Technologie", d1_25),
                     "Investissement_Transport", d1_15),
               "Investissement_Environnement", Q(120, 100))
    ELSE row

\* the body of the loop, the six blocks in the order of the source
trends_row(row) ==
    relance(covid(military_2014(crisis_or_growth(tech_boom(intifada(row))))))

add_israeli_trends(table) == [k \in 1..Len(table) |-> trends_row(table[k])]

\* variant: the frame of an earlier call is kept and reused
build_frame_kept(cfg, s, e, nz) ==
    IF df # <<>> THEN df ELSE DataFrame(build_data(cfg, date_range(s, e), nz))

\* generate_financial_data: df = pd.DataFrame(data), as built at line 156
build_frame(cfg, s, e, nz) == DataFrame(build_data(cfg, date_range(s, e), nz))

---------------------------------------------------------------------------
(* main                                                                    *)

communes ==
    <<"Jérusalem", "Tel Aviv-Jaffa", "Haïfa", "Beer-Sheva", "Netanya",
      "Ashdod", "Rishon LeZion", "Petah Tikva", "Eilat", "Tiberiade",
      "Nahariya", "Safed", "Herzliya", "Ramla", "Lod", "Modiin",
      "Kfar Saba", "Ra'anana", "Hadera", "Ashkelon", "Bat Yam", "Holon">>

\* variant: the upper range test written with >=
choose_commune_strict(inp) ==
    IF inp.kind = "int" /\ inp.val >= 1 /\ inp.val < Len(communes)
    THEN [name |-> communes[inp.val], fallback |-> FALSE]
    ELSE [name |-> "Tel Aviv-Jaffa", fallback |-> TRUE]

\* int(input(...)) raises ValueError on text; the range test raises it too
choose_commune(inp) ==
    IF inp.kind = "int" /\ inp.val >= 1 /\ inp.val <= Len(communes)
    THEN [name |-> communes[inp.val], fallback |-> FALSE]
    ELSE [name |-> "Tel Aviv-Jaffa", fallback |-> TRUE]

---------------------------------------------------------------------------
(* Bounds of the exploration.                                              *)

\* how far outside 1..22 the typed menu numbers go
InputMargin == 1
\* the noise draws are 1.0, 1.1, ..., 1 + MaxNoiseStep / 10
MaxNoiseStep == 1
\* how many times _add_israeli_trends runs on one table (once in generation)
MaxOverlayPasses == 2

Inputs ==
    [kind : {"int"}, val : (0 - InputMargin)..(Len(communes) + InputMargin)]
    \cup {[kind |-> "text", val |-> 0]}

\* the names an analyzer is constructed with directly
DirectNames == {"Nowhereville", "Tel Aviv-Jaffa"}

\* the year ranges a caller sets on the analyzer's attributes
StartYears == {2002, 2006}
EndYears == {2003, 2025}

Draws == {Q(10 + j, 10) : j \in 0..MaxNoiseStep}

Ones(n) == [c \in NoisyColumns |-> [k \in 1..n |-> One]]

\* the draws of one generation: every draw 1, or one metric drawn off 1
NoisePatterns(n) ==
    {Ones(n)} \cup
    {[c \in NoisyColumns |-> [k \in 1..n |-> IF c = m THEN v ELSE One]] :
        m \in NoisyColumns, v \in Draws \ {One}}

Rows(s, e) == Len(date_range(s, e))

\* nothing typed yet
NoInput == [kind |-> "none", val |-> 0]

NoConfig == [population_base |-> 0, budget_base |-> 0, type |-> "", specialites |-> {}]

---------------------------------------------------------------------------
(* The state machine.  mode is "main" for a run of main and "lib" for a    *)
(* caller that uses the class directly.                                    *)

Init ==
    /\ pc = "start"
    /\ mode = "none"
    /\ choix = NoInput
    /\ selection = ""
    /\ fallback = FALSE
    /\ commune = ""
    /\ config = NoConfig
    /\ start_year = 0
    /\ end_year = 0
    /\ noise = Ones(0)
    /\ raw = <<>>
    /\ df = <<>>
    /\ overlays = 0
    /\ prev_noise = Ones(0)
    /\ prev_df = <<>>
    /\ csv = <<>>

\* main, lines 901-908: read the menu number, fall back on bad input
MainInput(inp) ==
    /\ pc = "start"
    /\ pc' = "selected"
    /\ mode' = "main"
    /\ choix' = inp
    /\ selection' = choose_commune(inp).name
    /\ fallback' = choose_commune(inp).fallback
    /\ UNCHANGED <<commune, config, start_year, end_year, noise, raw, df,
                   overlays, prev_noise, prev_df, csv>>

\* __init__(commune_name)
Construct(name) ==
    /\ commune' = name
    /\ start_year' = DefaultStartYear
    /\ end_year' = DefaultEndYear
    /\ config' = get_commune_config(name)
    /\ pc' = "constructed"
    /\ UNCHANGED <<noise, raw, df, overlays, prev_noise, prev_df, csv>>

\* main, line 911
MainConstruct ==
    /\ pc = "selected"
    /\ Construct(selection)
    /\ UNCHANGED <<mode, choix, selection, fallback>>

\* a caller constructs an analyzer with a name of its own
DirectConstruct(name) ==
    /\ pc = "start"
    /\ Construct(name)
    /\ mode' = "lib"
    /\ UNCHANGED <<choix, selection, fallback>>

\* a caller assigns the attributes start_year and end_year
SetYearRange(s, e) ==
    /\ pc = "constructed"
    /\ mode = "lib"
    /\ <<s, e>> # <<start_year, end_year>>
    /\ start_year = DefaultStartYear /\ end_year = DefaultEndYear
    /\ start_year' = s
    /\ end_year' = e
    /\ UNCHANGED <<pc, mode, choix, selection, fallback, commune, config, noise, raw,
                   df, overlays, prev_noise, prev_df, csv>>

\* generate_financial_data, with the draws nz
GenerateWith(nz) ==
    /\ noise' = nz
    /\ raw' = build_frame(config, start_year, end_year, nz)
    /\ df' = add_israeli_trends(raw')
    /\ overlays' = 1
    /\ UNCHANGED <<mode, choix, selection, fallback, commune, config, start_year,
                   end_year, csv>>

Generate ==
    /\ pc = "constructed"
    /\ pc' = "generated"
    /\ \E nz \in NoisePatterns(Rows(start_year, end_year)) : GenerateWith(nz)
    /\ UNCHANGED <<prev_noise, prev_df>>

\* a second call of generate_financial_data on the same analyzer, made
\* while the first table is as it was returned
Regenerate ==
    /\ pc = "generated"
    /\ mode = "lib"
    /\ overlays = 1
    /\ pc' = "regenerated"
    /\ prev_noise' = noise
    /\ prev_df' = df
    /\ \E nz \in NoisePatterns(Rows(start_year, end_year)) : GenerateWith(nz)

\* a caller runs _add_israeli_trends again on the returned table
AddTrendsAgain ==
    /\ pc = "generated"
    /\ mode = "lib"
    /\ overlays < MaxOverlayPasses
    /\ df' = add_israeli_trends(df)
    /\ overlays' = overlays + 1
    /\ UNCHANGED <<pc, mode, choix, selection, fallback, commune, config, start_year,
                   end_year, noise, raw, prev_noise, prev_df, csv>>

\* main, lines 917-918: financial_data.to_csv(output_file, index=False)
ToCsv ==
    /\ pc = "generated"
    /\ mode = "main"
    /\ pc' = "exported"
    /\ csv' = df
    /\ UNCHANGED <<mode, choix, selection, fallback, commune, config, start_year,
                   end_year, noise, raw, df, overlays, prev_noise, prev_df>>

\* variant: the overlay applied by the analysis instead of left to generation
CreateAnalysis_overlaying ==
    /\ pc = "exported"
    /\ pc' = "done"
    /\ df' = add_israeli_trends(df)
    /\ overlays' = overlays + 1
    /\ UNCHANGED <<mode, choix, selection, fallback, commune, config, start_year,
                   end_year, noise, raw, prev_noise, prev_df, csv>>

\* main, line 927: analyzer.create_financial_analysis(financial_data); the
\* plots and the insights only read df
CreateAnalysis ==
    /\ pc = "exported"
    /\ pc' = "done"
    /\ UNCHANGED <<mode, choix, selection, fallback, commune, config, start_year,
                   end_year, noise, raw, df, overlays, prev_noise, prev_df, csv>>

Next ==
    \/ \E inp \in Inputs : MainInput(inp)
    \/ MainConstruct
    \/ \E name \in DirectNames : DirectConstruct(name)
    \/ \E s \in StartYears, e \in EndYears : SetYearRange(s, e)
    \/ Generate
    \/ AddTrendsAgain
    \/ ToCsv
    \/ CreateAnalysis

Spec == Init /\ [][Next]_vars

\* a caller that generates twice with one analyzer
NextTwice ==
    \/ \E name \in DirectNames : DirectConstruct(name)
    \/ \E s \in StartYears, e \in EndYears : SetYearRange(s, e)
    \/ Generate
    \/ Regenerate

SpecTwice == Init /\ [][NextTwice]_vars

TypeOK ==
    /\ pc \in {"start", "selected", "constructed", "generated", "regenerated", "exported", "done"}
    /\ Len(df) = Len(raw)


---------------------------------------------------------------------------
(* Properties.                                                             *)

Constructed == pc \notin {"start", "selected"}
Generated == overlays >= 1
HasYear(y) == \E k \in 1..Len(df) : df[k]["Annee"] = y
RowOf(table, y) == table[CHOOSE k \in 1..Len(table) : table[k]["Annee"] = y]
AllOnes == \A c \in NoisyColumns : \A k \in 1..Len(noise[c]) : noise[c][k] = One

AllColumns == {"Annee", "Population", "Menages"} \cup NoisyColumns

\* C1: profile resolution never fails: a name that is a key of the static
\* table yields the profile stored under it, any other name yields the
\* default profile (population_base 50000, budget_base 800, type "locale",
\* the spec's category "local").
C1_ProfileResolution ==
    Constructed =>
        /\ commune \in DOMAIN configs => config = configs[commune]
        /\ commune \in {"Nowhereville", "Herzliya", "Ramla", "Lod", "Modiin", "Kfar Saba",
                        "Ra'anana", "Hadera", "Ashkelon", "Bat Yam", "Holon"}
              => commune \notin DOMAIN configs
        /\ commune \notin DOMAIN configs =>
              /\ config.population_base = 50000
              /\ config.budget_base = 800
              /\ config.type = "locale"
              /\ config.specialites = {"commerce_local", "services", "education", "sante"}
        /\ commune = "Tel Aviv-Jaffa" =>
              config.budget_base = 12000 /\ config.type = "metropolitaine"

C1_Witness ==
    /\ pc = "constructed"
    /\ commune = "Nowhereville"
    /\ config.population_base = 50000
    /\ config.type = "locale"

\* C2: for a valid year range the generated table has end_year - start_year
\* + 1 rows, its Annee values run from start_year to end_year without gap,
\* and every row holds one value for every column (24 rows for 2002..2025).
C2_OneRowPerYear ==
    (Generated /\ start_year <= end_year) =>
        /\ Len(df) = end_year - start_year + 1
        /\ \A k \in 1..Len(df) : df[k]["Annee"] = start_year + k - 1
        /\ \A k \in 1..(Len(df) - 1) : df[k]["Annee"] < df[k + 1]["Annee"]
        /\ \A k \in 1..Len(df) : DOMAIN df[k] = AllColumns
        /\ (start_year = 2002 /\ end_year = 2025) => Len(df) = 24

C2_Witness ==
    /\ Generated
    /\ start_year = 2006 /\ end_year = 2025
    /\ Len(df) = 20
    /\ df[1]["Annee"] = 2006 /\ df[20]["Annee"] = 2025

TelAvivNoNoise ==
    /\ Generated /\ overlays = 1
    /\ commune = "Tel Aviv-Jaffa"
    /\ AllOnes
    /\ start_year = 2002 /\ end_year >= 2003

\* C3 as stated: for Tel Aviv-Jaffa with every draw 1, Recettes_Totales of
\* the generated table is 12000 x 4 = 48000 for 2002 and 48000 x 1.038 for
\* 2003.
C3_Original ==
    TelAvivNoNoise =>
        /\ df[1]["Recettes_Totales"] = Q(48000, 1)
        /\ df[2]["Recettes_Totales"] = Q(49824, 1)

\* C3 amended: these are the values before the overlay; the table that
\* generation returns carries the 0.95 of the 2002-2005 window on both
\* cells: 45600 for 2002 and 47332.8 for 2003.
C3_RevenueBeforeOverlay ==
    TelAvivNoNoise =>
        /\ raw[1]["Recettes_Totales"] = Q(48000, 1)
        /\ raw[2]["Recettes_Totales"] = Q(49824, 1)
        /\ df[1]["Recettes_Totales"] = Q(45600, 1)
        /\ df[2]["Recettes_Totales"] = Q(473328, 10)

C3_Witness ==
    /\ TelAvivNoNoise
    /\ df[1]["Annee"] = 2002 /\ df[2]["Annee"] = 2003
    /\ raw[2]["Recettes_Totales"] = Q(49824, 1)


\* The historical windows as the specification lists them: first year, last
\* year, and the factor of every metric the window names.
Windows ==
    << [lo |-> 2002, hi |-> 2005,
        f |-> "Investissement_Tourisme" :> Q(7, 10) @@ "Recettes_Totales" :> Q(95, 100)],
       [lo |-> 2006, hi |-> 2008,
        f |-> "Investissement_Technologie" :> Q(16, 10) @@ "Recettes_Totales" :> Q(108, 100)],
       [lo |-> 2008, hi |-> 2009,
        f |-> "Recettes_Totales" :> Q(92, 100) @@ "Investissement" :> Q(78, 100)],
       [lo |-> 2010, hi |-> 2019,
        f |-> "Investissement_Technologie" :> Q(12, 10) @@ "Subventions_Gouvernement" :> Q(105, 100)],
       [lo |-> 2014, hi |-> 2014,
        f |-> "Investissement_Securite" :> Q(25, 10) @@ "Depenses_Totales" :> Q(108, 100)],
       [lo |-> 2020, hi |-> 2020,
        f |-> "Recettes_Totales" :> Q(85, 100) @@ "Investissement_Tourisme" :> Q(6, 10)],
       [lo |-> 2021, hi |-> 2021,
        f |-> "Subventions_Gouvernement" :> Q(115, 100)],
       [lo |-> 2022, hi |-> 9999,
        f |-> "Investissement_Technologie" :> Q(125, 100) @@ "Investissement_Transport" :> Q(115, 100)
              @@ "Investissement_Environnement" :> Q(120, 100)] >>

Contains(w, y) == Windows[w].lo <= y /\ y <= Windows[w].hi

\* the metrics named by the windows that contain year y
NamedIn(y) == UNION {DOMAIN Windows[w].f : w \in {v \in 1..Len(Windows) : Contains(v, y)}}

RECURSIVE WindowProduct(_, _, _)
WindowProduct(c, y, w) ==
    IF w = 0 THEN One
    ELSE QMul(IF Contains(w, y) /\ c \in DOMAIN Windows[w].f THEN Windows[w].f[c] ELSE One,
              WindowProduct(c, y, w - 1))

\* the product of the factors of every window that contains y and names c
WindowFactor(c, y) == WindowProduct(c, y, Len(Windows))

Times(a, b) == QMul(a, b)

\* C4: in the pass that generation makes, a row whose year lies in several
\* windows gets the adjustments of each: 2008 gets those of 2006-2008 and of
\* 2008-2009, 2014 gets those of 2010-2019 and of 2014, and every year of
\* 2010-2019 gets those of 2010-2019.
C4_OverlappingWindows ==
    (Generated /\ overlays = 1) =>
        \A k \in 1..Len(df) :
            LET y == df[k]["Annee"]
                r == raw[k]
                d == df[k]
            IN  /\ y = 2008 =>
                    /\ d["Investissement_Technologie"] = Times(r["Investissement_Technologie"], Q(16, 10))
                    /\ d["Recettes_Totales"] =
                           Times(Times(r["Recettes_Totales"], Q(108, 100)), Q(92, 100))
                    /\ d["Investissement"] = Times(r["Investissement"], Q(78, 100))
                /\ y = 2014 =>
                    /\ d["Investissement_Securite"] = Times(r["Investissement_Securite"], Q(25, 10))
                    /\ d["Depenses_Totales"] = Times(r["Depenses_Totales"], Q(108, 100))
                /\ (2010 <= y /\ y <= 2019) =>
                    /\ d["Investissement_Technologie"] = Times(r["Investissement_Technologie"], Q(12, 10))
                    /\ d["Subventions_Gouvernement"] = Times(r["Subventions_Gouvernement"], Q(105, 100))

C4_Witness ==
    /\ Generated /\ overlays = 1
    /\ HasYear(2008) /\ HasYear(2014)
    /\ ~AllOnes
    /\ RowOf(df, 2008)["Recettes_Totales"] # RowOf(raw, 2008)["Recettes_Totales"]
    /\ RowOf(df, 2014)["Investissement_Securite"] # RowOf(raw, 2014)["Investissement_Securite"]

UntouchedColumns ==
    {"Annee", "Population", "Menages", "Impots_Locaux", "Autres_Recettes", "Fonctionnement",
     "Charge_Dette", "Personnel", "Epargne_Brute", "Dette_Totale", "Taux_Endettement",
     "Taux_Fiscalite", "Investissement_Education", "Investissement_Culture"}

\* C5: the overlay changes in a row only the metrics named by the windows
\* that contain the row's year; no row is added, removed or reordered, and
\* the columns no window names are the same before and after, however often
\* the pass has run.
C5_OverlayFrame ==
    Generated =>
        /\ Len(df) = Len(raw)
        /\ \A k \in 1..Len(df) :
            /\ df[k]["Annee"] = raw[k]["Annee"]
            /\ DOMAIN df[k] = DOMAIN raw[k]
            /\ \A c \in UntouchedColumns : df[k][c] = raw[k][c]
            /\ \A c \in DOMAIN df[k] : c \notin NamedIn(df[k]["Annee"]) => df[k][c] = raw[k][c]

C5_Witness ==
    /\ overlays = 2
    /\ HasYear(2014) /\ HasYear(2020)
    /\ RowOf(df, 2014)["Depenses_Totales"] # RowOf(raw, 2014)["Depenses_Totales"]
    /\ RowOf(df, 2014)["Fonctionnement"] = RowOf(raw, 2014)["Fonctionnement"]
    /\ RowOf(df, 2020)["Subventions_Gouvernement"] = RowOf(raw, 2020)["Subventions_Gouvernement"]

\* C6: the overlay is multiplicative and not idempotent: one pass multiplies
\* Investissement_Technologie of 2006, 2007 and 2008 by 1.6, a second pass
\* by 1.6 again (2.56 in all), and every cell carries its window factor
\* once per pass.
C6_OverlayCompounds ==
    Generated =>
        \A k \in 1..Len(df) :
            LET y == df[k]["Annee"]
                tech == "Investissement_Technologie"
            IN  /\ (2006 <= y /\ y <= 2008 /\ overlays = 1) =>
                    df[k][tech] = Times(raw[k][tech], Q(16, 10))
                /\ (2006 <= y /\ y <= 2008 /\ overlays = 2) =>
                    /\ df[k][tech] = Times(raw[k][tech], Q(256, 100))
                    /\ df[k][tech] # Times(raw[k][tech], Q(16, 10))
                /\ \A c \in DOMAIN df[k] \ {"Annee"} :
                    df[k][c] = Times(raw[k][c], QPow(WindowFactor(c, y), overlays))

C6_Witness ==
    /\ overlays = 2
    /\ HasYear(2006) /\ HasYear(2007) /\ HasYear(2008)
    /\ RowOf(df, 2007)["Investissement_Technologie"]
           = Times(RowOf(raw, 2007)["Investissement_Technologie"], Q(256, 100))


C8_Original ==
    (Generated /\ Len(df) > 0) => \A k \in 1..Len(df) : Cardinality(DOMAIN df[k]) = 20

\* C8 amended: the generated table has the 23 columns the claim lists: the
\* 16 from Annee to Taux_Fiscalite and the 7 per-sector investment columns.
C8_TwentyThreeColumns ==
    (Generated /\ Len(df) > 0) =>
        \A k \in 1..Len(df) :
            /\ DOMAIN df[k] =
                 {"Annee", "Population", "Menages", "Recettes_Totales", "Impots_Locaux",
                  "Subventions_Gouvernement", "Autres_Recettes", "Depenses_Totales",
                  "Fonctionnement", "Investissement", "Charge_Dette", "Personnel",
                  "Epargne_Brute", "Dette_Totale", "Taux_Endettement", "Taux_Fiscalite",
                  "Investissement_Technologie", "Investissement_Tourisme",
                  "Investissement_Transport", "Investissement_Education",
                  "Investissement_Securite", "Investissement_Environnement",
                  "Investissement_Culture"}
            /\ Cardinality(DOMAIN df[k]) = 23

C8_Witness ==
    /\ pc = "generated" /\ mode = "main"
    /\ Len(df) = 24
    /\ Cardinality(DOMAIN df[1]) = 23

WithTag(cfg, t) == [cfg EXCEPT !.specialites = @ \cup {t}]
WithoutTag(cfg, t) == [cfg EXCEPT !.specialites = @ \ {t}]

\* C9 as stated: for every sector and every profile the specialty
\* multiplier is exactly 1.0 when the sector's tag is absent from the
\* profile's specialties and greater than 1 when it is present.
C9_Original ==
    Constructed =>
        LET S == config.specialites
        IN  /\ IF "technologie" \in S THEN QLess(One, technology_multiplier(config))
                                      ELSE technology_multiplier(config) = One
            /\ IF "tourisme" \in S THEN QLess(One, tourism_multiplier(config))
                                   ELSE tourism_multiplier(config) = One
            /\ IF "transport" \in S THEN QLess(One, transport_multiplier(config))
                                    ELSE transport_multiplier(config) = One
            /\ IF "education" \in S THEN QLess(One, education_multiplier(config))
                                    ELSE education_multiplier(config) = One
            /\ IF "frontaliere" \in S THEN QLess(One, security_multiplier(config))
                                      ELSE security_multiplier(config) = One
            /\ IF "environnement" \in S THEN QLess(One, environment_multiplier(config))
                                        ELSE environment_multiplier(config) = One
            /\ IF "culture" \in S THEN QLess(One, culture_multiplier(config))
                                  ELSE culture_multiplier(config) = One

\* C9 amended: with the tag present the multiplier is greater than 1 (1.8,
\* 1.7, 1.4, 1.5, 1.4, 1.7 for technology, tourism, transport, education,
\* environment, culture) and greater than with the tag absent; with the tag
\* absent it is 1.0 only for transport and education and is 0.7, 0.8, 0.9,
\* 0.8 for technology, tourism, environment, culture; the security
\* multiplier is 1.6 when the tag frontaliere is present or the type is
\* capitale or metropolitaine, and 1.0 otherwise.
C9_SpecialtyMultipliers ==
    Constructed =>
        /\ technology_multiplier(WithTag(config, "technologie")) = Q(18, 10)
        /\ technology_multiplier(WithoutTag(config, "technologie")) = Q(7, 10)
        /\ tourism_multiplier(WithTag(config, "tourisme")) = Q(17, 10)
        /\ tourism_multiplier(WithoutTag(config, "tourisme")) = Q(8, 10)
        /\ transport_multiplier(WithTag(config, "transport")) = Q(14, 10)
        /\ transport_multiplier(WithoutTag(config, "transport")) = One
        /\ education_multiplier(WithTag(config, "education")) = Q(15, 10)
        /\ education_multiplier(WithoutTag(config, "education")) = One
        /\ environment_multiplier(WithTag(config, "environnement")) = Q(14, 10)
        /\ environment_multiplier(WithoutTag(config, "environnement")) = Q(9, 10)
        /\ culture_multiplier(WithTag(config, "culture")) = Q(17, 10)
        /\ culture_multiplier(WithoutTag(config, "culture")) = Q(8, 10)
        /\ security_multiplier(WithTag(config, "frontaliere")) = Q(16, 10)
        /\ security_multiplier(WithoutTag(config, "frontaliere")) =
               IF config.type \in {"capitale", "metropolitaine"} THEN Q(16, 10) ELSE One
        /\ QLess(One, technology_multiplier(WithTag(config, "technologie")))
        /\ QLess(technology_multiplier(WithoutTag(config, "technologie")),
                 technology_multiplier(WithTag(config, "technologie")))
        /\ QLess(tourism_multiplier(WithoutTag(config, "tourisme")),
                 tourism_multiplier(WithTag(config, "tourisme")))
        /\ QLess(transport_multiplier(WithoutTag(config, "transport")),
                 transport_multiplier(WithTag(config, "transport")))
        /\ QLess(education_multiplier(WithoutTag(config, "education")),
                 education_multiplier(WithTag(config, "education")))
        /\ QLess(environment_multiplier(WithoutTag(config, "environnement")),
                 environment_multiplier(WithTag(config, "environnement")))
        /\ QLess(culture_multiplier(WithoutTag(config, "culture")),
                 culture_multiplier(WithTag(config, "culture")))
        /\ technology_multiplier(config) =
               IF "technologie" \in config.specialites THEN Q(18, 10) ELSE Q(7, 10)
        /\ culture_multiplier(config) =
               IF "culture" \in config.specialites THEN Q(17, 10) ELSE Q(8, 10)
        /\ tourism_multiplier(config) =
               IF "tourisme" \in config.specialites THEN Q(17, 10) ELSE Q(8, 10)
        /\ education_multiplier(config) =
               IF "education" \in config.specialites THEN Q(15, 10) ELSE One

C9_Witness ==
    /\ Constructed
    /\ commune = "Tel Aviv-Jaffa"
    /\ "technologie" \in config.specialites /\ technology_multiplier(config) = Q(18, 10)
    /\ "education" \notin config.specialites /\ education_multiplier(config) = One
    /\ "frontaliere" \notin config.specialites /\ security_multiplier(config) = Q(16, 10)


\* the event-year multiplier and the specialty multiplier of each metric
EventMultiplier(c, y) ==
    CASE c = "Investissement" -> investment_year_multiplier(y)
      [] c = "Dette_Totale" -> debt_change(y)
      [] c = "Investissement_Technologie" -> technology_year_multiplier(y)
      [] c = "Investissement_Tourisme" -> tourism_year_multiplier(y)
      [] c = "Investissement_Transport" -> transport_year_multiplier(y)
      [] c = "Investissement_Education" -> education_year_multiplier(y)
      [] c = "Investissement_Securite" -> security_year_multiplier(y)
      [] c = "Investissement_Environnement" -> environment_year_multiplier(y)
      [] c = "Investissement_Culture" -> culture_year_multiplier(y)
      [] OTHER -> One

SpecialtyMultiplier(c, cfg) ==
    CASE c = "Investissement_Technologie" -> technology_multiplier(cfg)
      [] c = "Investissement_Tourisme" -> tourism_multiplier(cfg)
      [] c = "Investissement_Transport" -> transport_multiplier(cfg)
      [] c = "Investissement_Education" -> education_multiplier(cfg)
      [] c = "Investissement_Securite" -> security_multiplier(cfg)
      [] c = "Investissement_Environnement" -> environment_multiplier(cfg)
      [] c = "Investissement_Culture" -> culture_multiplier(cfg)
      [] OTHER -> One

\* the value of row k over the value of the first row, event years removed:
\* the growth factor of the metric relative to the first year
GrowthRatio(c, k) ==
    QProd(<<raw[k][c], QInv(raw[1][c]),
            EventMultiplier(c, raw[1]["Annee"]), QInv(EventMultiplier(c, raw[k]["Annee"]))>>)

\* the numerator of q - 1 over the denominator Den(q)
Excess(q) == Num(q) - Den(q)

\* C10 as stated: without noise and before the overlay every metric is
\* base x (1 + g x i) x event multiplier x specialty multiplier with i the
\* offset from the first year: the growth factor is 1 in the first year and
\* rises by the metric's rate g with each later year, so that the factor of
\* row k is 1 + (k - 1) x (factor of the second row - 1).
C10_Original ==
    (Generated /\ AllOnes /\ Len(raw) >= 2) =>
        \A c \in AllColumns \ {"Annee"} : \A k \in 1..Len(raw) :
            Excess(GrowthRatio(c, k)) * Den(GrowthRatio(c, 2))
                = (k - 1) * Excess(GrowthRatio(c, 2)) * Den(GrowthRatio(c, k))

\* share of budget_base (percent) and growth rate per year of offset
\* (thousandths) of the metrics that grow with the offset i
OffsetMetrics ==
       "Impots_Locaux" :> <<40, 32>>
    @@ "Autres_Recettes" :> <<25, 28>>
    @@ "Depenses_Totales" :> <<96, 34>>
    @@ "Fonctionnement" :> <<60, 30>>
    @@ "Investissement" :> <<36, 28>>
    @@ "Personnel" :> <<42, 31>>
    @@ "Investissement_Technologie" :> <<8, 45>>
    @@ "Investissement_Tourisme" :> <<6, 35>>
    @@ "Investissement_Transport" :> <<5, 32>>
    @@ "Investissement_Education" :> <<7, 30>>
    @@ "Investissement_Securite" :> <<4, 25>>
    @@ "Investissement_Environnement" :> <<3, 28>>
    @@ "Investissement_Culture" :> <<2, 25>>

\* share of budget_base (percent), rate per calendar year (thousandths) and
\* the calendar year the increase starts from
CalendarMetrics ==
       "Subventions_Gouvernement" :> <<35, 8, 2010>>
    @@ "Charge_Dette" :> <<6, 8, 2005>>
    @@ "Epargne_Brute" :> <<4, 10, 2010>>

BudgetShare(pct) == Q(config.budget_base * pct * 4, 100)
ByOffset(rate, i) == Q(1000 + rate * i, 1000)
Since(rate, from, y) == IF y >= from THEN Q(1000 + rate * (y - from), 1000) ELSE One

\* C10 amended: without noise and before the overlay,
\*  - Recettes_Totales, Impots_Locaux, Autres_Recettes, Depenses_Totales,
\*    Fonctionnement, Investissement, Personnel and the seven sector
\*    investments are share x budget_base x 4 x (1 + g x i) x event
\*    multiplier x specialty multiplier, i the offset from start_year;
\*  - Subventions_Gouvernement, Charge_Dette and Epargne_Brute are share x
\*    budget_base x 4 x (1 + r x (y - y0)) from the calendar year y0 on
\*    (2010, 2005, 2010) and share x budget_base x 4 before it;
\*  - Dette_Totale is 0.75 x budget_base x 4 x event multiplier, no growth;
\*  - Taux_Endettement is 0.65 x (1 - 0.012 x (y - 2010)) and Taux_Fiscalite
\*    0.92 x (1 + 0.006 x (y - 2010)) from 2010 on, 0.65 and 0.92 before,
\*    whatever the profile;
\*  - Population is population_base x (1 + g x i) and Menages
\*    population_base / 3 x (1 + 0.018 x i), without noise draw.
C10_PerMetricFormula ==
    (Generated /\ AllOnes) =>
        \A k \in 1..Len(raw) :
            LET y == raw[k]["Annee"]
                i == y - start_year
                r == raw[k]
            IN  /\ i = k - 1
                /\ r["Recettes_Totales"] =
                       QMul(BudgetShare(100),
                            ByOffset(IF config.type = "metropolitaine" THEN 38
                                     ELSE IF config.type = "technologie" THEN 42 ELSE 35, i))
                /\ \A c \in DOMAIN OffsetMetrics :
                       r[c] = QProd(<<BudgetShare(OffsetMetrics[c][1]),
                                      ByOffset(OffsetMetrics[c][2], i),
                                      EventMultiplier(c, y), SpecialtyMultiplier(c, config)>>)
                /\ \A c \in DOMAIN CalendarMetrics :
                       r[c] = QMul(BudgetShare(CalendarMetrics[c][1]),
                                   Since(CalendarMetrics[c][2], CalendarMetrics[c][3], y))
                /\ r["Dette_Totale"] = QMul(BudgetShare(75), EventMultiplier("Dette_Totale", y))
                /\ r["Taux_Endettement"] = QMul(Q(65, 100), Since(0 - 12, 2010, y))
                /\ r["Taux_Fiscalite"] = QMul(Q(92, 100), Since(6, 2010, y))
                /\ r["Population"] =
                       QMul(Q(config.population_base, 1),
                            ByOffset(CASE config.type = "capitale" -> 18
                                       [] config.type = "metropolitaine" -> 22
                                       [] config.type = "touristique" -> 25
                                       [] OTHER -> 20, i))
                /\ r["Menages"] = QMul(Q(config.population_base, 3), ByOffset(18, i))

C10_Witness ==
    /\ Generated /\ AllOnes
    /\ commune = "Safed"
    /\ start_year = 2002 /\ end_year = 2025
    /\ raw[2]["Impots_Locaux"] = QMul(Q(1088, 1), Q(1032, 1000))
    /\ RowOf(raw, 2009)["Subventions_Gouvernement"] = Q(952, 1)
    /\ RowOf(raw, 2011)["Subventions_Gouvernement"] = QMul(Q(952, 1), Q(1008, 1000))
    /\ RowOf(raw, 2025)["Dette_Totale"] = Q(2040, 1)


\* generate_financial_data has returned a table to its caller
Returned == pc \in {"generated", "regenerated", "exported", "done"}

\* C11: a generator invoked with a malformed year range (end_year <
\* start_year) raises an invalid-argument condition and returns no table,
\* neither a partial nor an empty one.
C11_RejectsMalformedRange ==
    (Constructed /\ end_year < start_year) => ~Returned


ValidChoice == choix.kind = "int" /\ 1 <= choix.val /\ choix.val <= 22

\* C12: in main an invalid menu input (text, a number below 1 or above 22)
\* selects "Tel Aviv-Jaffa", reports the fallback, and the run goes on to
\* generation; a valid number k selects the k-th menu entry; the selected
\* entity is always an entry of the menu.
C12_MenuFallback ==
    mode = "main" =>
        /\ Len(communes) = 22
        /\ \E k \in 1..22 : selection = communes[k]
        /\ ValidChoice => (selection = communes[choix.val] /\ ~fallback)
        /\ ~ValidChoice => (selection = "Tel Aviv-Jaffa" /\ fallback)
        /\ (ValidChoice /\ choix.val = 1) => selection = "Jérusalem"
        /\ (ValidChoice /\ choix.val = 13) => selection = "Herzliya"
        /\ (ValidChoice /\ choix.val = 22) => selection = "Holon"
        /\ pc = "constructed" => commune = selection
        /\ Returned => commune = selection

C12_Witness ==
    /\ mode = "main"
    /\ choix.kind = "text"
    /\ fallback
    /\ pc = "generated"
    /\ commune = "Tel Aviv-Jaffa"
    /\ Len(df) = 24


C13_StateOrder ==
    mode = "main" =>
        /\ pc \in {"selected", "constructed"} =>
               (overlays = 0 /\ raw = <<>> /\ df = <<>> /\ csv = <<>>)
        /\ Returned =>
               /\ overlays = 1
               /\ Len(df) = Len(raw) /\ Len(df) = 24
               /\ \A k \in 1..Len(df) : \A c \in DOMAIN df[k] \ {"Annee"} :
                      df[k][c] = QMul(raw[k][c], WindowFactor(c, raw[k]["Annee"]))
        /\ pc = "generated" => csv = <<>>
        /\ pc \in {"exported", "done"} => csv = df

\* C13: in a run of main the table is built once by the generators, the
\* overlay is applied exactly once, inside generate_financial_data, and only
\* then is the table exported and reported; export and reporting change no
\* cell.
C13_Lifecycle ==
    /\ []C13_StateOrder
    /\ [][(mode = "main" /\ pc \in {"generated", "exported"}) =>
              (df' = df /\ raw' = raw /\ overlays' = overlays)]_vars

C13_Witness ==
    /\ mode = "main"
    /\ pc = "done"
    /\ overlays = 1
    /\ Len(df) = 24
    /\ csv = df
    /\ df # raw


\* C14: metric independence: a cell of the table depends only on the
\* profile, the year and its own draw.  When generation is repeated with
\* other draws, every cell whose own draw is the same has the same value,
\* before the overlay and after it, whatever the draws of the other metrics;
\* the columns without draw (Annee, Population, Menages) never change.
C14_MetricIndependence ==
    [][pc' = "regenerated" =>
          \A k \in 1..Len(df') :
              /\ \A c \in NoisyColumns :
                     noise'[c][k] = noise[c][k] =>
                         (raw'[k][c] = raw[k][c] /\ df'[k][c] = df[k][c])
              /\ \A c \in {"Annee", "Population", "Menages"} :
                     (raw'[k][c] = raw[k][c] /\ df'[k][c] = df[k][c])]_vars

C14_Witness ==
    /\ pc = "regenerated"
    /\ Len(df) = 24 /\ Len(prev_df) = 24
    /\ noise["Recettes_Totales"] # prev_noise["Recettes_Totales"]
    /\ noise["Impots_Locaux"] = prev_noise["Impots_Locaux"]
    /\ df[7]["Recettes_Totales"] # prev_df[7]["Recettes_Totales"]
    /\ df[7]["Impots_Locaux"] = prev_df[7]["Impots_Locaux"]


\* the event years of each metric, with their multiplier
EventYears ==
       "Investissement" :> <<[years |-> {2006, 2012, 2018, 2023}, m |-> Q(16, 10)],
                             [years |-> {2008, 2014, 2020}, m |-> Q(8, 10)]>>
    @@ "Dette_Totale" :> <<[years |-> {2006, 2012, 2018, 2023}, m |-> Q(120, 100)],
                           [years |-> {2008, 2014, 2020}, m |-> Q(88, 100)]>>
    @@ "Investissement_Technologie" :> <<[years |-> {2005, 2010, 2015, 2020}, m |-> Q(22, 10)]>>
    @@ "Investissement_Tourisme" :> <<[years |-> {2007, 2013, 2019, 2024}, m |-> Q(18, 10)]>>
    @@ "Investissement_Transport" :> <<[years |-> {2006, 2012, 2018, 2023}, m |-> Q(17, 10)]>>
    @@ "Investissement_Education" :> <<[years |-> {2008, 2014, 2020}, m |-> Q(16, 10)]>>
    @@ "Investissement_Securite" :> <<[years |-> {2002, 2006, 2009, 2014, 2021}, m |-> Q(2, 1)]>>
    @@ "Investissement_Environnement" :> <<[years |-> {2009, 2015, 2021}, m |-> Q(18, 10)]>>
    @@ "Investissement_Culture" :> <<[years |-> {2010, 2016, 2022}, m |-> Q(19, 10)]>>

EventYearSet(c) == UNION {EventYears[c][j].years : j \in 1..Len(EventYears[c])}

ListedEventAt(c, y) ==
    IF y \in EventYearSet(c)
    THEN EventYears[c][CHOOSE j \in 1..Len(EventYears[c]) : y \in EventYears[c][j].years].m
    ELSE One

ListedEvents == [c \in DOMAIN EventYears |-> [y \in 2002..2025 |-> ListedEventAt(c, y)]]

ListedEvent(c, y) == ListedEvents[c][y]

\* the generators' own tests, year by year, against the listed years
EventTestsAgree ==
    \A c \in DOMAIN EventYears : \A y \in 2002..2025 :
        /\ EventMultiplier(c, y) = ListedEvent(c, y)
        /\ EventMultiplier(c, y) # One <=> y \in EventYearSet(c)

\* the linear growth of each event metric at every offset of the table
EventGrowth ==
    [c \in DOMAIN EventYears |->
        [i \in 0..23 |-> IF c = "Dette_Totale" THEN One ELSE ByOffset(OffsetMetrics[c][2], i)]]

\* C15: the event-year multiplier of a metric differs from 1 exactly on the
\* metric's fixed calendar years and is 1 on every other year of 2002..2025,
\* whatever the profile and whatever the offset of the year in the table.
C15_EventYears ==
    /\ Constructed => EventTestsAgree
    /\ Generated =>
           \A c \in DOMAIN EventYears :
               LET base == QMul(BudgetShare(IF c = "Dette_Totale" THEN 75 ELSE OffsetMetrics[c][1]),
                                SpecialtyMultiplier(c, config))
               IN  \A k \in 1..Len(raw) :
                       LET y == raw[k]["Annee"]
                       IN  raw[k][c] = QProd(<<base, EventGrowth[c][y - start_year],
                                               ListedEvent(c, y), noise[c][k]>>)

C15_Witness ==
    /\ Generated
    /\ start_year = 2006 /\ end_year = 2025
    /\ commune = "Tel Aviv-Jaffa"
    /\ AllOnes
    /\ raw[1]["Investissement"] = QMul(Q(17280, 1), Q(16, 10))
    /\ raw[3]["Investissement"] = QProd(<<Q(17280, 1), Q(1056, 1000), Q(8, 10)>>)
    /\ raw[2]["Investissement"] = QMul(Q(17280, 1), Q(1028, 1000))


\* the cell of the returned table against the generated one, after every pass
ScaledBy(k, c, f) == df[k][c] = QMul(raw[k][c], QPow(f, overlays))

\* C16: the 2020-2021 window is split by exact year (2020: Recettes_Totales
\* x0.85 and Investissement_Tourisme x0.6, Subventions_Gouvernement untouched;
\* 2021: Subventions_Gouvernement x1.15, the other two untouched), and the
\* technology x1.25, transport x1.15 and environment x1.20 adjustments reach
\* the rows of 2022 and later and no earlier row.
C16_CovidSplit ==
    Generated =>
        \A k \in 1..Len(df) :
            LET y == raw[k]["Annee"]
            IN  /\ y = 2020 =>
                       /\ ScaledBy(k, "Recettes_Totales", Q(85, 100))
                       /\ ScaledBy(k, "Investissement_Tourisme", Q(6, 10))
                       /\ df[k]["Subventions_Gouvernement"] = raw[k]["Subventions_Gouvernement"]
                /\ y = 2021 =>
                       /\ ScaledBy(k, "Subventions_Gouvernement", Q(115, 100))
                       /\ df[k]["Recettes_Totales"] = raw[k]["Recettes_Totales"]
                       /\ df[k]["Investissement_Tourisme"] = raw[k]["Investissement_Tourisme"]
                /\ y >= 2022 =>
                       /\ ScaledBy(k, "Investissement_Technologie", Q(125, 100))
                       /\ ScaledBy(k, "Investissement_Transport", Q(115, 100))
                       /\ ScaledBy(k, "Investissement_Environnement", Q(120, 100))
                /\ y < 2022 =>
                       /\ df[k]["Investissement_Transport"] = raw[k]["Investissement_Transport"]
                       /\ df[k]["Investissement_Environnement"] = raw[k]["Investissement_Environnement"]
                       /\ ScaledBy(k, "Investissement_Technologie",
                                   IF 2006 <= y /\ y <= 2008 THEN Q(16, 10)
                                   ELSE IF 2010 <= y /\ y <= 2019 THEN Q(12, 10)
                                   ELSE One)

C16_Witness ==
    /\ Generated /\ overlays = 1
    /\ HasYear(2020) /\ HasYear(2021) /\ HasYear(2022)
    /\ ~AllOnes
    /\ RowOf(df, 2020)["Recettes_Totales"] = QMul(RowOf(raw, 2020)["Recettes_Totales"], Q(85, 100))
    /\ RowOf(df, 2021)["Subventions_Gouvernement"]
           = QMul(RowOf(raw, 2021)["Subventions_Gouvernement"], Q(115, 100))
    /\ RowOf(df, 2021)["Investissement_Technologie"] = RowOf(raw, 2021)["Investissement_Technologie"]
    /\ RowOf(df, 2022)["Investissement_Technologie"]
           = QMul(RowOf(raw, 2022)["Investissement_Technologie"], Q(125, 100))


\* the menu's entries with a profile of their own, and their population_base
Profiled ==
    <<"Jérusalem", "Tel Aviv-Jaffa", "Haïfa", "Beer-Sheva", "Netanya", "Ashdod",
      "Rishon LeZion", "Petah Tikva", "Eilat", "Tiberiade", "Nahariya", "Safed">>
ProfiledPopulation ==
    <<950000, 460000, 285000, 220000, 220000, 225000,
      255000, 250000, 52000, 44000, 58000, 37000>>
\* the menu's entries without one
Unprofiled ==
    <<"Herzliya", "Ramla", "Lod", "Modiin", "Kfar Saba", "Ra'anana",
      "Hadera", "Ashkelon", "Bat Yam", "Holon">>
DefaultProfile ==
    [population_base |-> 50000, budget_base |-> 800, type |-> "locale",
     specialites |-> {"commerce_local", "services", "education", "sante"}]

\* C17: a commune chosen at menu positions 13..22 is analysed with the
\* default profile, so its table depends on the noise draws alone; positions
\* 1..12 each resolve to the profile stored under their own name.
C17_MenuProfiles ==
    (mode = "main" /\ Constructed /\ choix.kind = "int") =>
        /\ choix.val \in 13..22 =>
               /\ commune = Unprofiled[choix.val - 12]
               /\ commune \notin DOMAIN configs
               /\ config = DefaultProfile
               /\ Returned =>
                      df = add_israeli_trends(build_frame(DefaultProfile, 2002, 2025, noise))
        /\ choix.val \in 1..12 =>
               /\ commune = Profiled[choix.val]
               /\ config = configs[Profiled[choix.val]]
               /\ config.population_base = ProfiledPopulation[choix.val]
               /\ config # DefaultProfile

C17_Witness ==
    /\ mode = "main" /\ choix.kind = "int" /\ choix.val = 22
    /\ commune = "Holon"
    /\ config.population_base = 50000 /\ config.type = "locale"
    /\ pc = "generated"
    /\ ~AllOnes
    /\ Len(df) = 24
    /\ df[1]["Population"] = Q(50000, 1)


\* every profile _get_commune_config can return: the 12 named ones and the default
ReachableProfiles == {get_commune_config(n) : n \in DOMAIN configs \cup {"Nowhereville"}}

\* no profile has the type "technologie"; the word is only a specialty tag
TechnologyIsOnlyATag ==
    /\ Cardinality(DOMAIN configs) = 13
    /\ \A p \in ReachableProfiles :
           /\ p.type # "technologie"
           /\ revenue_growth_rate(p) = (IF p.type = "metropolitaine" THEN 38 ELSE 35)
           /\ revenue_growth_rate(p) # 42
    /\ \E p \in ReachableProfiles : "technologie" \in p.specialites /\ revenue_growth_rate(p) = 35

\* C18: the growth rate of total revenue is 0.038 for a profile of type
\* metropolitaine and 0.035 for every other reachable profile; the 0.042 of
\* type "technologie" is never selected, since no profile has that type.
C18_RevenueGrowthRate ==
    Constructed =>
        LET g == IF config.type = "metropolitaine" THEN 38 ELSE 35
        IN  /\ TechnologyIsOnlyATag
            /\ config \in ReachableProfiles
            /\ revenue_growth_rate(config) = g
            /\ Generated =>
                   LET base == Q(config.budget_base * 4, 1)
                   IN  \A k \in 1..Len(raw) :
                           raw[k]["Recettes_Totales"] =
                               QProd(<<base, Q(1000 + g * (raw[k]["Annee"] - start_year), 1000),
                                       noise["Recettes_Totales"][k]>>)

C18_Witness ==
    /\ Generated
    /\ commune = "Haïfa"
    /\ config.type = "portuaire" /\ "technologie" \in config.specialites
    /\ AllOnes
    /\ raw[1]["Recettes_Totales"] = Q(19200, 1)
    /\ raw[2]["Recettes_Totales"] = Q(19872, 1)


\* the three tags no reachable profile carries
AbsentTags == {"transport", "environnement", "frontaliere"}

AbsentTagMultipliers ==
    \A p \in ReachableProfiles :
        /\ p.specialites \cap AbsentTags = {}
        /\ transport_multiplier(p) = One
        /\ environment_multiplier(p) = Q(9, 10)
        /\ security_multiplier(p) =
               (IF p.type \in {"capitale", "metropolitaine"} THEN Q(16, 10) ELSE One)

\* C19: no reachable profile has the tag transport, environnement or
\* frontaliere, so the transport multiplier is 1.0, the environment
\* multiplier is 0.9, and the security multiplier is 1.6 exactly for the
\* types capitale and metropolitaine and 1.0 otherwise.
C19_AbsentTags ==
    Constructed =>
        LET ByType == IF config.type \in {"capitale", "metropolitaine"} THEN Q(16, 10) ELSE One
            claimed == "Investissement_Transport" :> One
                       @@ "Investissement_Environnement" :> Q(9, 10)
                       @@ "Investissement_Securite" :> ByType
        IN  /\ AbsentTagMultipliers
            /\ config.specialites \cap AbsentTags = {}
            /\ security_multiplier(config) = ByType
            /\ security_multiplier(config) = Q(16, 10)
                   <=> config.type \in {"capitale", "metropolitaine"}
            /\ Generated =>
                   \A c \in DOMAIN claimed :
                       LET base == QMul(BudgetShare(OffsetMetrics[c][1]), claimed[c])
                       IN  \A k \in 1..Len(raw) :
                               LET y == raw[k]["Annee"]
                               IN  raw[k][c] = QProd(<<base, EventGrowth[c][y - start_year],
                                                       ListedEvent(c, y), noise[c][k]>>)

C19_Witness ==
    /\ Generated
    /\ commune = "Nahariya"
    /\ "commerce_frontalier" \in config.specialites
    /\ AllOnes
    /\ raw[2]["Investissement_Securite"] = Q(1558, 10)
    /\ raw[2]["Investissement_Transport"] = Q(19608, 100)
    /\ raw[2]["Investissement_Environnement"] = Q(1054728, 10000)


\* the two demographic columns, which have no noise draw
Demographic == {"Population", "Menages"}

\* population growth per year (thousandths) by type
DemographicRate ==
    IF config.type = "capitale" THEN 18
    ELSE IF config.type = "metropolitaine" THEN 22
    ELSE IF config.type = "touristique" THEN 25
    ELSE 20

\* C20: Population and Menages take no noise draw and no overlay factor:
\* Population(y) = population_base x (1 + g x i) with g by type and
\* Menages(y) = population_base / 3 x (1 + 0.018 x i), i = y - start_year
\* (y - 2002 for the analyzer's own start year); the first row's Population
\* is population_base, both columns rise strictly with the year, and they
\* are the same whatever the draws.
C20_Demographics ==
    /\ Demographic \cap NoisyColumns = {}
    /\ (Constructed /\ mode = "main") => start_year = 2002
    /\ Generated =>
           LET pop == Q(config.population_base, 1)
               men == Q(config.population_base, 3)
           IN  \A k \in 1..Len(df) :
                   LET y == df[k]["Annee"]
                       i == y - start_year
                   IN  /\ df[k]["Population"] = QMul(pop, Q(1000 + DemographicRate * i, 1000))
                       /\ df[k]["Menages"] = QMul(men, Q(1000 + 18 * i, 1000))
                       /\ start_year = 2002 =>
                              /\ df[k]["Population"]
                                     = QMul(pop, Q(1000 + DemographicRate * (y - 2002), 1000))
                              /\ df[k]["Menages"] = QMul(men, Q(1000 + 18 * (y - 2002), 1000))
                              /\ y = 2002 => df[k]["Population"] = pop
                       /\ \A c \in Demographic : df[k][c] = raw[k][c]
                       /\ k > 1 => \A c \in Demographic : QLess(df[k - 1][c], df[k][c])

C20_Witness ==
    /\ Generated /\ overlays = 2
    /\ ~AllOnes
    /\ commune = "Tel Aviv-Jaffa" /\ start_year = 2002 /\ end_year = 2025
    /\ RowOf(df, 2002)["Population"] = Q(460000, 1)
    /\ RowOf(df, 2025)["Population"] = Q(692760, 1)
    /\ RowOf(df, 2005)["Menages"] = Q(484840, 3)


\* the cells where an event year of the generator meets, or misses, a window
\* of the overlay: <<column, year, generator's factor, overlay's factor>>
Compounded ==
    {<<"Investissement", 2008, Q(8, 10), Q(78, 100)>>,
     <<"Investissement_Securite", 2014, Q(2, 1), Q(25, 10)>>,
     <<"Investissement_Technologie", 2010, Q(22, 10), Q(12, 10)>>,
     <<"Investissement_Technologie", 2015, Q(22, 10), Q(12, 10)>>,
     <<"Investissement_Technologie", 2020, Q(22, 10), One>>}

\* C21: the generator's event-year multiplier and the overlay's window
\* multiplier compound on one cell: after generation Investissement of 2008
\* carries 0.8 x 0.78, Investissement_Securite of 2014 carries 2.0 x 2.5,
\* Investissement_Technologie of 2010 and 2015 carries 2.2 x 1.2, and
\* Investissement_Technologie of 2020 carries 2.2 alone.
C21_Compounding ==
    (Generated /\ overlays = 1) =>
        \A t \in Compounded :
            HasYear(t[2]) =>
                LET c == t[1]
                    k == CHOOSE j \in 1..Len(df) : df[j]["Annee"] = t[2]
                    plain == QProd(<<BudgetShare(OffsetMetrics[c][1]),
                                     EventGrowth[c][t[2] - start_year],
                                     SpecialtyMultiplier(c, config),
                                     noise[c][k]>>)
                IN  /\ raw[k][c] = QMul(plain, t[3])
                    /\ df[k][c] = QProd(<<plain, t[3], t[4]>>)

C21_Witness ==
    /\ Generated /\ overlays = 1
    /\ AllOnes
    /\ commune = "Tel Aviv-Jaffa" /\ start_year = 2002 /\ end_year = 2025
    /\ RowOf(df, 2014)["Investissement_Securite"] = Q(19968, 1)
    /\ RowOf(raw, 2014)["Investissement_Securite"] = Q(79872, 10)
    /\ RowOf(df, 2020)["Investissement_Technologie"] = Q(27523584, 1000)
    /\ RowOf(df, 2020)["Investissement_Technologie"] = RowOf(raw, 2020)["Investissement_Technologie"]


====
